---- MODULE Spec2Model ----
(***************************************************************************)
(* A model of src/src/binary_tree.rs: parent-linked binary tree nodes,     *)
(* their breadth-first and inorder traversals, parent assignment and the   *)
(* two inversions.  A node reference (Rc<RefCell<BinaryTreeNode>>) is a    *)
(* handle into the store `tree`; Option::None and an empty Weak are None.  *)
(***************************************************************************)
EXTENDS Integers, Sequences, FiniteSets, TLC

\* Largest caller-built tree, in nodes.
MaxNodes == 3

NODES_COUNT == 15

None == -1

VARIABLES
    tree,      \* handle -> BinaryTreeNode
    op,        \* the operation called last
    arg,       \* the node passed to it
    ret,       \* what it returned
    pre,       \* the store as it was when that call began
    streak,    \* the inversions of the root called back to back (the last
               \* two at most), oldest first
    base,      \* the store as it was when that streak began
    assigned   \* assign_parents has been run on the root holder's node

vars == <<tree, op, arg, ret, pre, streak, base, assigned>>

----------------------------------------------------------------------------
\* Nodes

format(n) == "n" \o ToString(n)

new_node(uuid) ==
    [id |-> uuid, name |-> "", data |-> 0,
     parent |-> None, left |-> None, right |-> None]

get_node_id(v, t) == IF v = None THEN None ELSE t[v].id

is_same(v1, v2, t) == get_node_id(v1, t) = get_node_id(v2, t)

\* The handle the root holder keeps (BinaryTree.root, nodes[0]).
tree_root == 0

\* Every loop is cut after this many iterations; a cut result has
\* returned = FALSE.
Fuel(t) == 2 * Cardinality(DOMAIN t) + 2

\* Variant: the right child is queued ahead of the left one.
push_children_right_left(queue, n) ==
    LET q1 == IF n.right # None THEN Append(queue, n.right) ELSE queue
    IN  IF n.left # None THEN Append(q1, n.left) ELSE q1

push_children(queue, n) ==
    LET q1 == IF n.left # None THEN Append(queue, n.left) ELSE queue
    IN  IF n.right # None THEN Append(q1, n.right) ELSE q1

----------------------------------------------------------------------------
\* count

RECURSIVE count_loop(_, _, _)
count_loop(queue, count, t) ==
    IF queue = <<>> THEN [count |-> count, iters |-> count, returned |-> TRUE]
    ELSE IF count >= Fuel(t) THEN [count |-> count, iters |-> count, returned |-> FALSE]
    ELSE count_loop(push_children(Tail(queue), t[Head(queue)]), count + 1, t)

count(node, t) == count_loop(<<node>>, 0, t)

----------------------------------------------------------------------------
\* flatten_top_down

RECURSIVE flatten_top_down_loop(_, _, _)
flatten_top_down_loop(queue, nodes, t) ==
    IF queue = <<>> THEN [nodes |-> nodes, iters |-> Len(nodes), returned |-> TRUE]
    ELSE IF Len(nodes) >= Fuel(t)
    THEN [nodes |-> nodes, iters |-> Len(nodes), returned |-> FALSE]
    ELSE flatten_top_down_loop(push_children(Tail(queue), t[Head(queue)]),
                               Append(nodes, Head(queue)), t)

flatten_top_down(node, t) == flatten_top_down_loop(<<node>>, <<>>, t)

----------------------------------------------------------------------------
\* leftmost

RECURSIVE leftmost_loop(_, _, _, _)
leftmost_loop(current, leftmost_, k, t) ==
    IF k >= Fuel(t) THEN [node |-> leftmost_, iters |-> k, returned |-> FALSE]
    ELSE IF t[current].left # None
    THEN leftmost_loop(t[current].left, t[current].left, k + 1, t)
    ELSE [node |-> leftmost_, iters |-> k + 1, returned |-> TRUE]

\* Variant: a single left step, no loop.
leftmost_single_step(node_ref, t) ==
    [node |-> t[node_ref].left, iters |-> 1, returned |-> TRUE]

leftmost(node_ref, t) == leftmost_loop(node_ref, None, 0, t)

----------------------------------------------------------------------------
\* get_root

RECURSIVE get_root_loop(_, _, _)
get_root_loop(start, k, t) ==
    IF k >= Fuel(t) THEN [node |-> start, iters |-> k, returned |-> FALSE]
    ELSE IF t[start].parent # None THEN get_root_loop(t[start].parent, k + 1, t)
    ELSE [node |-> start, iters |-> k, returned |-> TRUE]

get_root(node_ref, t) == get_root_loop(node_ref, 0, t)

----------------------------------------------------------------------------
\* flatten_inorder

\* The inner loop (lines 120-137): climb while root is the right child of
\* root_parent.  Yields the root_parent it leaves with.
RECURSIVE climb_loop(_, _, _, _, _)
climb_loop(root, root_parent, parent_right, k, t) ==
    IF root_parent = None THEN [root |-> root_parent, inner |-> k, returned |-> TRUE]
    ELSE IF k >= Fuel(t) THEN [root |-> root_parent, inner |-> k, returned |-> FALSE]
    ELSE IF ~is_same(root, parent_right, t)
    THEN [root |-> root_parent, inner |-> k + 1, returned |-> TRUE]
    ELSE LET root2 == root_parent
             root_parent2 == IF root2 # None THEN t[root2].parent ELSE None
             parent_right2 == IF root_parent2 # None THEN t[root_parent2].right
                              ELSE None
         IN  climb_loop(root2, root_parent2, parent_right2, k + 1, t)

\* Variant: leftdone is not consulted, every iteration descends.
descend_ignoring_leftdone(root_ref, leftdone, t) ==
    LET lm == leftmost(root_ref, t).node
    IN  IF lm # None THEN lm ELSE root_ref

\* Lines 101-106: the node the iteration emits.
descend(root_ref, leftdone, t) ==
    LET lm == leftmost(root_ref, t).node
    IN  IF ~leftdone /\ lm # None THEN lm ELSE root_ref

RECURSIVE flatten_inorder_loop(_, _, _, _, _, _)
flatten_inorder_loop(root, nodes, leftdone, k, inner, t) ==
    IF root = None
    THEN [nodes |-> nodes, iters |-> k, inner |-> inner, returned |-> TRUE]
    ELSE IF k >= Fuel(t)
    THEN [nodes |-> nodes, iters |-> k, inner |-> inner, returned |-> FALSE]
    ELSE LET lm == leftmost(root, t)
             current_ref == descend(root, leftdone, t)
             nodes2 == Append(nodes, current_ref)
             root_node == t[current_ref]
         IN  IF ~leftdone /\ ~lm.returned
             THEN [nodes |-> nodes, iters |-> k, inner |-> inner, returned |-> FALSE]
             ELSE IF root_node.right # None
             THEN flatten_inorder_loop(root_node.right, nodes2, FALSE, k + 1, inner, t)
             ELSE IF root_node.parent # None
             THEN LET c == climb_loop(current_ref, root_node.parent,
                                      t[root_node.parent].right, 0, t)
                  IN  IF ~c.returned
                      THEN [nodes |-> nodes2, iters |-> k + 1,
                            inner |-> inner + c.inner, returned |-> FALSE]
                      ELSE flatten_inorder_loop(c.root, nodes2, TRUE, k + 1,
                                                inner + c.inner, t)
             ELSE [nodes |-> nodes2, iters |-> k + 1, inner |-> inner,
                   returned |-> TRUE]

\* Variant: leftdone starts out true.
flatten_inorder_leftdone_start(node_ref, t) ==
    flatten_inorder_loop(node_ref, <<>>, TRUE, 0, 0, t)

\* Variant: the walk is confined to the subtree of its argument.
flatten_inorder_confined(node_ref, t) ==
    flatten_inorder_loop(node_ref, <<>>, FALSE, 0, 0,
                         [t EXCEPT ![node_ref].parent = None])

flatten_inorder(node_ref, t) == flatten_inorder_loop(node_ref, <<>>, FALSE, 0, 0, t)

----------------------------------------------------------------------------
\* assign_parents

\* Variant: only the left child's link is set.
set_parents_left_only(t, n, p) ==
    IF t[n].left # None THEN [t EXCEPT ![t[n].left].parent = p] ELSE t

set_parents(t, n, p) ==
    LET t1 == IF t[n].left # None THEN [t EXCEPT ![t[n].left].parent = p] ELSE t
    IN  IF t1[n].right # None THEN [t1 EXCEPT ![t1[n].right].parent = p] ELSE t1

RECURSIVE assign_parents_loop(_, _, _)
assign_parents_loop(queue, k, t) ==
    IF queue = <<>> THEN [tree |-> t, iters |-> k, returned |-> TRUE]
    ELSE IF k >= Fuel(t) THEN [tree |-> t, iters |-> k, returned |-> FALSE]
    ELSE assign_parents_loop(push_children(Tail(queue), t[Head(queue)]), k + 1,
                             set_parents(t, Head(queue), Head(queue)))

assign_parents(node, t) == assign_parents_loop(<<node>>, 0, t)

----------------------------------------------------------------------------
\* invert_recursive, invert_iterative

\* Variant: no temporary, the right child is overwritten and lost.
swap_children_no_tmp(t, n) ==
    [t EXCEPT ![n].right = t[n].left, ![n].left = None]

\* Variant: the swap also resets the node's parent link.
swap_children_reset_parent(t, n) ==
    [t EXCEPT ![n].right = t[n].left, ![n].left = t[n].right, ![n].parent = None]

\* "swap child nodes" (lines 204-207, 222-225)
swap_children(t, n) ==
    [t EXCEPT ![n].right = t[n].left, ![n].left = t[n].right]

\* One call frame: s carries the store, the nodes swapped so far and the
\* number of calls made.
RECURSIVE invert_recursive_call(_, _)
invert_recursive_call(node_ref, s) ==
    LET s1 == IF s.tree[node_ref].right # None
              THEN invert_recursive_call(s.tree[node_ref].right, s) ELSE s
        s2 == IF s1.tree[node_ref].left # None
              THEN invert_recursive_call(s1.tree[node_ref].left, s1) ELSE s1
    IN  [tree |-> swap_children(s2.tree, node_ref),
         order |-> Append(s2.order, node_ref),
         iters |-> s2.iters + 1]

\* Variant: the children of node_ref are swapped, the descendants are not
\* visited.
invert_recursive_shallow(node_ref, t) ==
    [tree |-> swap_children(t, node_ref), order |-> <<node_ref>>, iters |-> 1,
     returned |-> TRUE]

invert_recursive(node_ref, t) ==
    LET s == invert_recursive_call(node_ref, [tree |-> t, order |-> <<>>, iters |-> 0])
    IN  [tree |-> s.tree, order |-> s.order, iters |-> s.iters, returned |-> TRUE]

\* Variant: the left child is never queued.
push_right_only(queue, n) ==
    IF n.right # None THEN Append(queue, n.right) ELSE queue

push_children_right_first(queue, n) ==
    LET q1 == IF n.right # None THEN Append(queue, n.right) ELSE queue
    IN  IF n.left # None THEN Append(q1, n.left) ELSE q1

RECURSIVE invert_iterative_loop(_, _, _)
invert_iterative_loop(queue, order, t) ==
    IF queue = <<>>
    THEN [tree |-> t, order |-> order, iters |-> Len(order), returned |-> TRUE]
    ELSE IF Len(order) >= Fuel(t)
    THEN [tree |-> t, order |-> order, iters |-> Len(order), returned |-> FALSE]
    ELSE invert_iterative_loop(
             push_children_right_first(Tail(queue), t[Head(queue)]),
             Append(order, Head(queue)),
             swap_children(t, Head(queue)))

invert_iterative(root_ref, t) == invert_iterative_loop(<<root_ref>>, <<>>, t)

----------------------------------------------------------------------------
\* utils: the fixtures

populate_node_list ==
    [n \in 0 .. NODES_COUNT - 1 |->
        [new_node(n) EXCEPT !.name = format(n), !.data = n]]

populate_balanced_binary_tree ==
    LET nodes == populate_node_list
        wired == [n \in DOMAIN nodes |->
                    LET left_child == n * 2 + 1
                        right_child == left_child + 1
                    IN  [nodes[n] EXCEPT
                           !.left = IF left_child < NODES_COUNT
                                    THEN nodes[left_child].id ELSE None,
                           !.right = IF left_child < NODES_COUNT
                                     THEN nodes[right_child].id ELSE None]]
    IN  assign_parents(0, wired).tree

node_values == <<8, 4, 12, 2, 6, 10, 14, 1, 3, 5, 7, 9, 11, 13, 15>>

populate_balanced_binary_search_tree ==
    LET t == populate_balanced_binary_tree
        flatten == flatten_top_down(tree_root, t).nodes
    IN  [n \in DOMAIN t |->
            IF \E i \in 1 .. Len(flatten) : flatten[i] = n
            THEN [t[n] EXCEPT !.data =
                     node_values[CHOOSE i \in 1 .. Len(flatten) : flatten[i] = n]]
            ELSE t[n]]

\* Trees a caller builds the way the fixture is built: fresh nodes from
\* populate_node_list's recipe, children attached through the left and
\* right fields, no parent assigned yet.  A shape is the set of heap
\* positions (children of i at 2i+1 and 2i+2) that hold a node.
RECURSIVE ShapesOfSize(_)
ShapesOfSize(k) ==
    IF k <= 1 THEN {{0}}
    ELSE UNION { { S \cup {c} : c \in { 2 * n + d : n \in S, d \in {1, 2} } \ S }
                 : S \in ShapesOfSize(k - 1) }

Shapes == UNION { ShapesOfSize(k) : k \in 1 .. MaxNodes }

wire(S) ==
    [n \in S |->
        [new_node(n) EXCEPT
            !.name = format(n), !.data = n,
            !.left = IF n * 2 + 1 \in S THEN n * 2 + 1 ELSE None,
            !.right = IF n * 2 + 2 \in S THEN n * 2 + 2 ELSE None]]

----------------------------------------------------------------------------
\* The state machine: any operation, called on any node.

Inverts == {"invert_recursive", "invert_iterative"}

NoRet ==
    [nodes |-> <<>>, count |-> 0, node |-> None, order |-> <<>>,
     iters |-> 0, inner |-> 0, returned |-> TRUE]

\* Read-only operations are called on every node; the mutating ones on every
\* node of a caller-built tree and on the root of the larger fixture.
ReadArgs == DOMAIN tree

WriteArgs == IF Cardinality(DOMAIN tree) <= MaxNodes THEN DOMAIN tree ELSE {tree_root}

Init ==
    /\ \/ /\ tree \in { wire(S) : S \in Shapes }
          /\ assigned = FALSE
       \/ /\ tree = populate_balanced_binary_tree
          /\ assigned = TRUE
       \/ /\ tree = populate_balanced_binary_search_tree
          /\ assigned = TRUE
    /\ op = "new"
    /\ arg = tree_root
    /\ ret = NoRet
    /\ pre = tree
    /\ streak = <<>>
    /\ base = tree

ReadOnly(name, x, r) ==
    /\ op' = name
    /\ arg' = x
    /\ ret' = r
    /\ pre' = tree
    /\ streak' = <<>>
    /\ base' = tree
    /\ UNCHANGED <<tree, assigned>>

Count(x) ==
    LET r == count(x, tree)
    IN  ReadOnly("count", x,
                 [NoRet EXCEPT !.count = r.count, !.iters = r.iters,
                               !.returned = r.returned])

FlattenTopDown(x) ==
    LET r == flatten_top_down(x, tree)
    IN  ReadOnly("flatten_top_down", x,
                 [NoRet EXCEPT !.nodes = r.nodes, !.iters = r.iters,
                               !.returned = r.returned])

FlattenInorder(x) ==
    LET r == flatten_inorder(x, tree)
    IN  ReadOnly("flatten_inorder", x,
                 [NoRet EXCEPT !.nodes = r.nodes, !.iters = r.iters,
                               !.inner = r.inner, !.returned = r.returned])

Leftmost(x) ==
    LET r == leftmost(x, tree)
    IN  ReadOnly("leftmost", x,
                 [NoRet EXCEPT !.node = r.node, !.iters = r.iters,
                               !.returned = r.returned])

AssignParents(x) ==
    LET r == assign_parents(x, tree)
    IN  /\ tree' = r.tree
        /\ op' = "assign_parents"
        /\ arg' = x
        /\ ret' = [NoRet EXCEPT !.iters = r.iters, !.returned = r.returned]
        /\ pre' = tree
        /\ streak' = <<>>
        /\ base' = r.tree
        /\ assigned' = (assigned \/ x = tree_root)

Invert(name, x, r) ==
    LET cont == x = tree_root /\ op \in Inverts /\ arg = x /\ Len(streak) = 1
    IN  /\ tree' = r.tree
        /\ op' = name
        /\ arg' = x
        /\ ret' = [NoRet EXCEPT !.order = r.order, !.iters = r.iters,
                                !.returned = r.returned]
        /\ pre' = tree
        /\ streak' = IF cont THEN Append(streak, name)
                     ELSE IF x = tree_root THEN <<name>> ELSE <<>>
        /\ base' = IF cont THEN base ELSE tree
        /\ UNCHANGED assigned

InvertRecursive(x) == Invert("invert_recursive", x, invert_recursive(x, tree))

InvertIterative(x) == Invert("invert_iterative", x, invert_iterative(x, tree))

Next ==
    \/ \E x \in ReadArgs : Count(x)
    \/ \E x \in ReadArgs : FlattenTopDown(x)
    \/ \E x \in ReadArgs : FlattenInorder(x)
    \/ \E x \in ReadArgs : Leftmost(x)
    \/ \E x \in WriteArgs : AssignParents(x)
    \/ \E x \in WriteArgs : InvertRecursive(x)
    \/ \E x \in WriteArgs : InvertIterative(x)

Spec == Init /\ [][Next]_vars

----------------------------------------------------------------------------
\* Vocabulary of the properties

Size(t) == Cardinality(DOMAIN t)

\* The nodes of the subtree rooted at x.
RECURSIVE Subtree(_, _)
Subtree(x, t) ==
    IF x = None THEN {}
    ELSE {x} \cup Subtree(t[x].left, t) \cup Subtree(t[x].right, t)

\* The nodes reached from x by one or more left steps.
RECURSIVE LeftChain(_, _)
LeftChain(x, t) ==
    IF t[x].left = None THEN {} ELSE {t[x].left} \cup LeftChain(t[x].left, t)

Reverse(s) == [i \in 1 .. Len(s) |-> s[Len(s) + 1 - i]]

Names(s, t) == [i \in 1 .. Len(s) |-> t[s[i]].name]

IndexOf(s, n) == CHOOSE i \in 1 .. Len(s) : s[i] = n

SuffixFrom(s, i) == SubSeq(s, i, Len(s))

\* s lists every node of a set exactly once.
ListsOnce(s, nodes) ==
    /\ Len(s) = Cardinality(nodes)
    /\ { s[i] : i \in 1 .. Len(s) } = nodes

\* s is the left-root-right listing of the subtree of x.
IsInorder(s, x, t) ==
    /\ ListsOnce(s, Subtree(x, t))
    /\ \A n \in Subtree(x, t) :
          /\ \A m \in Subtree(t[n].left, t) : IndexOf(s, m) < IndexOf(s, n)
          /\ \A m \in Subtree(t[n].right, t) : IndexOf(s, n) < IndexOf(s, m)

\* The textbook recursive inorder listing.
RECURSIVE Inorder(_, _)
Inorder(x, t) ==
    IF x = None THEN <<>>
    ELSE Inorder(t[x].left, t) \o <<x>> \o Inorder(t[x].right, t)

\* <<node, position>> for the subtree of x, x at position p, the children of
\* position q at 2q+1 (left) and 2q+2 (right): a smaller position is a
\* shallower level or, within a level, further left.
RECURSIVE Positions(_, _, _)
Positions(x, p, t) ==
    IF x = None THEN {}
    ELSE {<<x, p>>} \cup Positions(t[x].left, 2 * p + 1, t)
                    \cup Positions(t[x].right, 2 * p + 2, t)

PositionOf(n, x, t) == (CHOOSE e \in Positions(x, 0, t) : e[1] = n)[2]

IsLevelOrder(s, x, t) ==
    /\ ListsOnce(s, Subtree(x, t))
    /\ \A i, j \in 1 .. Len(s) :
          i < j => PositionOf(s[i], x, t) < PositionOf(s[j], x, t)

\* Every child's parent link resolves to the node that holds it.
Consistent(t) ==
    \A p \in DOMAIN t :
        /\ t[p].left # None => t[t[p].left].parent = p
        /\ t[p].right # None => t[t[p].right].parent = p

\* t is N nodes n0 .. n{N-1} wired by heap indexing.
HeapIndexed(t) ==
    /\ DOMAIN t = 0 .. Size(t) - 1
    /\ \A n \in DOMAIN t :
          /\ t[n].name = format(n)
          /\ t[n].left = IF 2 * n + 1 < Size(t) THEN 2 * n + 1 ELSE None
          /\ t[n].right = IF 2 * n + 2 < Size(t) THEN 2 * n + 2 ELSE None

Mirrored(t, u) ==
    \A n \in DOMAIN t : t[n].left = u[n].right /\ t[n].right = u[n].left

SameChildren(t, u) ==
    \A n \in DOMAIN t : t[n].left = u[n].left /\ t[n].right = u[n].right

\* x is the root, or every step from x up to the root leaves a right child.
RECURSIVE OnRightSpine(_, _)
OnRightSpine(x, t) ==
    \/ t[x].parent = None
    \/ /\ t[t[x].parent].right = x
       /\ OnRightSpine(t[x].parent, t)

FixtureInorder ==
    <<"n7", "n3", "n8", "n1", "n9", "n4", "n10", "n0",
      "n11", "n5", "n12", "n2", "n13", "n6", "n14">>

FixtureInverted ==
    <<"n14", "n6", "n13", "n2", "n12", "n5", "n11", "n0",
      "n10", "n4", "n9", "n1", "n8", "n3", "n7">>

----------------------------------------------------------------------------
\* C1: on a tree whose parent links were set by assign_parents(root),
\* flatten_inorder(root) returns the left-root-right listing: every node
\* once, after all of its left subtree and before all of its right subtree;
\* on the 15-node heap-indexed fixture that is n7, n3, n8, n1, ..., n6, n14.
C1_InorderOfRoot ==
    (op = "flatten_inorder" /\ arg = tree_root /\ assigned) =>
        /\ ret.returned
        /\ IsInorder(ret.nodes, tree_root, tree)
        /\ (Size(tree) = NODES_COUNT /\ HeapIndexed(tree)) =>
               Names(ret.nodes, tree) = FixtureInorder

C1_Witness ==
    /\ op = "flatten_inorder" /\ arg = tree_root /\ assigned
    /\ Size(tree) = NODES_COUNT /\ HeapIndexed(tree)
    /\ Len(ret.nodes) = NODES_COUNT

\* C2: one inversion of the root (either variant) swaps the children of every
\* node, and flatten_inorder(root) afterwards is the reverse of what
\* flatten_inorder(root) returned before; on the fixture n14, n6, ..., n3, n7.
C2_InvertReversesInorder ==
    (op \in Inverts /\ arg = tree_root) =>
        /\ Mirrored(tree, pre)
        /\ assigned =>
               flatten_inorder(tree_root, tree).nodes =
                   Reverse(flatten_inorder(tree_root, pre).nodes)
        /\ (Size(pre) = NODES_COUNT /\ HeapIndexed(pre)) =>
               Names(flatten_inorder(tree_root, tree).nodes, tree) = FixtureInverted

C2_Witness ==
    /\ op \in Inverts /\ arg = tree_root /\ assigned
    /\ Size(pre) = NODES_COUNT /\ HeapIndexed(pre)
    /\ tree # pre

\* C3: the two inversions are equivalent: from the same tree either one ends
\* with the children the other one would have produced, although the
\* recursive one swaps every node after its descendants (post-order) and the
\* iterative one swaps level by level from the top (breadth-first).
C3_InversionsAgree ==
    /\ op = "invert_recursive" =>
          /\ tree = invert_iterative(arg, pre).tree
          /\ ListsOnce(ret.order, Subtree(arg, pre))
          /\ \A n \in Subtree(arg, pre) : \A m \in Subtree(n, pre) \ {n} :
                 IndexOf(ret.order, m) < IndexOf(ret.order, n)
    /\ op = "invert_iterative" =>
          /\ tree = invert_recursive(arg, pre).tree
          /\ IsLevelOrder(ret.order, arg, tree)
    /\ op \in Inverts =>
          /\ flatten_top_down(arg, tree).nodes =
                 flatten_top_down(arg, invert_recursive(arg, pre).tree).nodes
          /\ flatten_top_down(arg, tree).nodes =
                 flatten_top_down(arg, invert_iterative(arg, pre).tree).nodes
          /\ flatten_inorder(arg, tree).nodes =
                 flatten_inorder(arg, invert_recursive(arg, pre).tree).nodes
          /\ flatten_inorder(arg, tree).nodes =
                 flatten_inorder(arg, invert_iterative(arg, pre).tree).nodes

C3_Witness ==
    /\ op = "invert_iterative"
    /\ Cardinality(Subtree(arg, tree)) >= 3
    /\ ret.order # invert_recursive(arg, pre).order
    /\ tree # pre

\* C4: two inversions of the root in a row, in any mix of the two variants,
\* give every node its original children back, and flatten_inorder(root)
\* returns what it returned before the first of them.
C4_InvertTwiceIsIdentity ==
    Len(streak) = 2 =>
        /\ SameChildren(tree, base)
        /\ tree = base
        /\ flatten_inorder(tree_root, tree).nodes =
               flatten_inorder(tree_root, base).nodes

C4_Witness ==
    /\ streak = <<"invert_recursive", "invert_iterative">>
    /\ assigned
    /\ Size(tree) >= 3
    /\ pre # tree

\* C5 as claimed: after assign_parents(root) every child below root resolves
\* to the node that holds it, and the parent of the node passed is absent.
C5_AsClaimed ==
    op = "assign_parents" =>
        /\ \A n \in Subtree(arg, tree) :
              /\ tree[n].left # None => tree[tree[n].left].parent = n
              /\ tree[n].right # None => tree[tree[n].right].parent = n
        /\ tree[arg].parent = None

\* C5, amended: after assign_parents(node) every child below node resolves to
\* the node that holds it, and the parent link of the node passed is what it
\* was before the call: absent for a node that never had one (the tree's
\* root), still its parent for a node that is a child in an assigned tree.
C5_AssignParents ==
    op = "assign_parents" =>
        /\ ret.returned
        /\ \A n \in Subtree(arg, tree) :
              /\ tree[n].left # None => tree[tree[n].left].parent = n
              /\ tree[n].right # None => tree[tree[n].right].parent = n
        /\ tree[arg].parent = pre[arg].parent
        /\ arg = tree_root => tree[arg].parent = None
        /\ (arg # tree_root /\ assigned) => tree[arg].parent # None

C5_Witness ==
    /\ op = "assign_parents"
    /\ arg # tree_root
    /\ tree[arg].parent # None
    /\ tree[arg].left # None

\* C6: flatten_top_down(node) lists the subtree of node once each in level
\* order (shallower first, left before right within a level) and count(node)
\* is the length of that list; on N nodes wired by heap indexing the list is
\* n0 .. n{N-1} and count(root) = N.
C6_LevelOrderAndCount ==
    /\ op = "flatten_top_down" =>
          /\ ret.returned
          /\ IsLevelOrder(ret.nodes, arg, tree)
          /\ count(arg, tree).count = Len(ret.nodes)
          /\ (HeapIndexed(tree) /\ arg = tree_root) =>
                 /\ ret.nodes = [i \in 1 .. Size(tree) |-> i - 1]
                 /\ Names(ret.nodes, tree) = [i \in 1 .. Size(tree) |-> format(i - 1)]
    /\ op = "count" =>
          /\ ret.returned
          /\ ret.count = Cardinality(Subtree(arg, tree))
          /\ ret.count = Len(flatten_top_down(arg, tree).nodes)
          /\ (HeapIndexed(tree) /\ arg = tree_root) => ret.count = Size(tree)

C6_Witness ==
    /\ op = "flatten_top_down" /\ arg = tree_root
    /\ HeapIndexed(tree) /\ Size(tree) = NODES_COUNT
    /\ Len(ret.nodes) = NODES_COUNT

\* C7: leftmost(node) is absent exactly when node has no left child; otherwise
\* it is the node at the end of the chain of left children below node; it
\* is never node itself.
C7_Leftmost ==
    op = "leftmost" =>
        /\ ret.returned
        /\ (ret.node = None) <=> (tree[arg].left = None)
        /\ ret.node # None =>
               /\ ret.node \in LeftChain(arg, tree)
               /\ tree[ret.node].left = None
        /\ ret.node # arg

C7_Witness ==
    /\ op = "leftmost"
    /\ ret.node # None
    /\ ret.node # tree[arg].left

\* C8: every operation reaches its return on a finite tree, flatten_inorder
\* when the parent links are assigned, and no loop runs more iterations than
\* the tree has nodes.
C8_Terminates ==
    /\ ret.returned \/ (op = "flatten_inorder" /\ ~assigned)
    /\ op \in {"count", "flatten_top_down", "assign_parents"} \cup Inverts =>
           ret.iters = Cardinality(Subtree(arg, pre))
    /\ op = "leftmost" => ret.iters <= Cardinality(Subtree(arg, pre))
    /\ (op = "flatten_inorder" /\ assigned) =>
           /\ ret.iters <= Size(tree)
           /\ ret.inner <= Size(tree)
           /\ arg = tree_root => ret.iters = Size(tree)

C8_Witness ==
    /\ op = "flatten_inorder" /\ assigned /\ arg = tree_root
    /\ ret.returned
    /\ ret.iters = NODES_COUNT
    /\ ret.inner > 0

\* C9: an inversion, of the root or of any node, leaves every node's parent
\* link, label, key and identity as they were; once assign_parents(root) has
\* run, every child keeps resolving to the node that holds it through any
\* sequence of calls, and flatten_inorder(root) stays the inorder listing.
C9_InversionKeepsParents ==
    /\ op \in Inverts =>
          \A n \in DOMAIN tree :
              /\ tree[n].parent = pre[n].parent
              /\ tree[n].name = pre[n].name
              /\ tree[n].data = pre[n].data
              /\ tree[n].id = pre[n].id
    /\ assigned =>
          /\ Consistent(tree)
          /\ IsInorder(flatten_inorder(tree_root, tree).nodes, tree_root, tree)

C9_Witness ==
    /\ op \in Inverts
    /\ assigned
    /\ arg # tree_root
    /\ tree[arg].left # pre[arg].left
    /\ tree[arg].parent # None

\* C10: with consistent parent links flatten_inorder(x) returns the suffix of
\* the whole tree's inorder listing that starts at the first inorder node of
\* x's subtree; it is the inorder listing of x's subtree, and has length
\* count(x), exactly when x is the root or every step from x up to the root
\* leaves a right child.
C10_InorderRunsToTheEnd ==
    (op = "flatten_inorder" /\ assigned) =>
        LET whole == Inorder(get_root(arg, tree).node, tree)
            first == IF tree[arg].left # None THEN leftmost(arg, tree).node ELSE arg
        IN  /\ ret.nodes = SuffixFrom(whole, IndexOf(whole, first))
            /\ (ret.nodes = Inorder(arg, tree)) <=> OnRightSpine(arg, tree)
            /\ (Len(ret.nodes) = count(arg, tree).count) <=> OnRightSpine(arg, tree)

C10_Witness ==
    /\ op = "flatten_inorder" /\ assigned
    /\ arg # tree_root
    /\ tree[arg].left # None
    /\ Len(ret.nodes) > count(arg, tree).count

====
